---- MODULE Spec2Model ----
(***************************************************************************)
(* Process lifecycle of xdg-desktop-portal-wlr (src/core/main.c):          *)
(*   - the pid-file instance guard, run by several processes that share    *)
(*     one lock file (GuardSpec);                                          *)
(*   - the construction of the pid-file path (PathSpec);                   *)
(*   - the poll loop of one process and its error exit (LoopSpec);         *)
(*   - the bootstrap of one process followed by its loop (MainSpec).       *)
(***************************************************************************)
EXTENDS Integers, Sequences, FiniteSets, TLC

(***************************************************************************)
(* Bounds of the model.                                                    *)
(***************************************************************************)
\* number of processes that may be started against the same pid file
NProcs == 2

Procs == 1..NProcs

\* getpid(): distinct positive numbers, of one and of two decimal digits
PidOf(p) == 4 + 4 * p

VARIABLES
  \* ---- instance guard, one entry per process ----
  pc,                \* position of the process in main / the guard
  replace_existing,  \* the argument of the running guard call
  depth,             \* nesting of assert_only_one_xdpw_instance calls
  pidfd,             \* file offset of the open pid file handle, -1: none
  other_pid,         \* atoi() of the bytes read from the pid file
  ret,               \* value returned by the guard
  exitStatus,        \* exit status of main, -1 while running
  pending,           \* signal sent to the process and not yet acted on
  \* ---- shared between the processes ----
  locked,            \* processes whose handle holds the flock
  file,              \* content of the pid file, a sequence of digits
  sharedGroup,       \* all processes are in one process group
  \* ---- history of the guard call of a live process ----
  attempts,          \* flock calls made by the process
  sigLog,            \* kill calls made: <<pid argument, signal>>
  signalled,         \* processes that received the SIGTERM of the takeover
  graceExit,         \* those of them that had ended when the grace period was over
  holderSeen,        \* processes holding the lock when the first flock of the call failed
  ioFailed           \* system calls of the guard that failed for the process

VARIABLES
  \* ---- open_pidfd of one process ----
  ppc,               \* position in open_pidfd and in the guard's test of its result
  env_len,           \* strlen of XDG_RUNTIME_DIR, -1: the variable is not set
  prefix_len,        \* size_t prefix_len
  filename,          \* char filename[256]: "?" not written, "c" a path byte, "0" NUL
  oob,               \* indexes outside filename that were written
  opened,            \* open() was called
  open_ret,          \* value returned by open_pidfd
  perrno,            \* errno set by open_pidfd
  guard_ret          \* value returned by the guard on a failed open_pidfd

pvars == <<ppc, env_len, prefix_len, filename, oob, opened, open_ret, perrno, guard_ret>>

VARIABLES
  \* ---- the poll loop of one process ----
  mpc,               \* position in main
  revents,           \* pollfds[i].revents as left by the last poll
  lret,              \* int ret: sign of the last value assigned to it
  busWork,           \* messages queued on the bus connection
  kAtWake,           \* busWork when the last poll returned
  wlQueued,          \* display events read and not yet dispatched
  wlError,           \* the display connection is in its fatal error state
  wlOutDirty,        \* requests are buffered for the display and not written
  wlReadable,        \* bytes from the display are waiting unread on its socket
  busCalls,          \* sd_bus_process calls since the last poll returned
  wlCalls,           \* wl_display_dispatch calls since the last poll returned
  pwCalls,           \* pw_loop_iterate calls since the last poll returned
  errs,              \* calls that reported an error since the last poll returned
  iterated,          \* an iteration of the loop has been completed
  released,          \* release calls made, in order
  boot,              \* calls of the bootstrap made so far, in order
  exitCode           \* value returned by main, -1 while running

lvars == <<mpc, revents, lret, busWork, kAtWake, wlQueued, wlError, wlOutDirty,
           wlReadable, busCalls, wlCalls, pwCalls, errs, iterated, released, boot,
           exitCode>>

gvars == <<pc, replace_existing, depth, pidfd, other_pid, ret, exitStatus,
           pending, locked, file, sharedGroup, attempts, sigLog, signalled, graceExit, holderSeen,
           ioFailed>>

vars == <<gvars, pvars, lvars>>

(***************************************************************************)
(* Text of a pid: sprintf("%d") and atoi() on sequences of decimal digits. *)
(***************************************************************************)
RECURSIVE Sprintf(_)
Sprintf(n) == IF n < 10 THEN <<n>> ELSE Sprintf(n \div 10) \o <<n % 10>>

RECURSIVE AtoiFrom(_, _)
AtoiFrom(s, acc) ==
  IF s = <<>> \/ Head(s) \notin 0..9 THEN acc
  ELSE AtoiFrom(Tail(s), 10 * acc + Head(s))

Atoi(s) == AtoiFrom(s, 0)

Min(a, b) == IF a < b THEN a ELSE b

\* read(pidfd, other_inst, sizeof(other_inst) - 1): at most 15 bytes from the offset
OtherInstSize == 16

ReadBytes(f, off) ==
  IF off >= Len(f) THEN <<>>
  ELSE SubSeq(f, off + 1, Min(Len(f), off + OtherInstSize - 1))

\* write(pidfd, pid, len): the bytes replace the content at the handle's offset
WriteAt(f, off, data) ==
  LET n    == Len(data)
      pre  == [i \in 1..off |-> IF i <= Len(f) THEN f[i] ELSE 0]
      post == IF Len(f) > off + n THEN SubSeq(f, off + n + 1, Len(f)) ELSE <<>>
  IN pre \o data \o post

(***************************************************************************)
(* Processes, signals and the advisory lock.                               *)
(***************************************************************************)
EXIT_FAILURE == 1

\* a process that was started and has neither returned from main nor been killed
Alive(q) == pc[q] \notin {"start", "exited", "killed"}

\* kill(pid, sig): pid 0 addresses the process group of the caller
Recipients(p, pid) ==
  IF pid = 0 THEN {q \in Procs : Alive(q) /\ (q = p \/ sharedGroup)}
  ELSE {q \in Procs : Alive(q) /\ PidOf(q) = pid}

SendSignal(p, pid, sig) ==
  /\ pending' = [q \in Procs |->
                   IF q \in Recipients(p, pid) /\ pending[q] # "KILL" THEN sig
                   ELSE pending[q]]
  /\ sigLog' = [sigLog EXCEPT ![p] = Append(@, <<pid, sig>>)]

\* the lock taken shared: no handle ever finds it busy
FlockNeverBusy(p) == FALSE

\* flock(pidfd, LOCK_EX | LOCK_NB) fails with EWOULDBLOCK while another handle holds the lock
FlockBusy(p) == locked \ {p} # {}

\* the process ends: its memory is gone and the kernel closes its handles, which
\* drops a lock it holds
Exit(p, how, status) ==
  /\ pc' = [pc EXCEPT ![p] = how]
  /\ exitStatus' = [exitStatus EXCEPT ![p] = status]
  /\ locked' = locked \ {p}
  /\ replace_existing' = [replace_existing EXCEPT ![p] = FALSE]
  /\ depth' = [depth EXCEPT ![p] = 0]
  /\ pidfd' = [pidfd EXCEPT ![p] = -1]
  /\ other_pid' = [other_pid EXCEPT ![p] = 0]
  /\ ret' = [ret EXCEPT ![p] = 0]
  /\ pending' = [pending EXCEPT ![p] = "none"]
  /\ attempts' = [attempts EXCEPT ![p] = 0]
  /\ sigLog' = [sigLog EXCEPT ![p] = <<>>]
  /\ signalled' = [signalled EXCEPT ![p] = {}]
  /\ graceExit' = [graceExit EXCEPT ![p] = {}]
  /\ holderSeen' = [holderSeen EXCEPT ![p] = {}]
  /\ ioFailed' = [ioFailed EXCEPT ![p] = {}]

\* return -1 / return 0 of assert_only_one_xdpw_instance, back in main
Return(p, value) ==
  /\ ret' = [ret EXCEPT ![p] = value]
  /\ pc' = [pc EXCEPT ![p] = "ret"]

Failed(p, call) == ioFailed' = [ioFailed EXCEPT ![p] = @ \cup {call}]

(***************************************************************************)
(* open_pidfd: the path of the pid file in a buffer of 256 bytes.          *)
(***************************************************************************)
\* char filename[256];
FILENAME_SIZE == 256

\* sizeof(pidfdname), pidfdname = "/xdpw.pid" with its terminating zero byte
PIDFDNAME_SIZE == 10

\* strlen("/tmp")
TMP_LEN == 4

\* longest value of XDG_RUNTIME_DIR tried
MaxPrefixLen == 260

\* static const char pidfdname[] = "/xdpw.pid": nine path bytes and the zero byte
Pidfdname == [i \in 1..PIDFDNAME_SIZE |-> IF i = PIDFDNAME_SIZE THEN "0" ELSE "c"]

\* the test made with strlen(pidfdname), forgetting the terminating zero byte
TooLongStrlen(len) == len + (PIDFDNAME_SIZE - 1) > FILENAME_SIZE

\* if (prefix_len + sizeof(pidfdname) > sizeof(filename))
TooLong(len) == len + PIDFDNAME_SIZE > FILENAME_SIZE

\* memcpy(filename + at, src, n): the bytes that land inside the buffer
Memcpy(buf, at, n, src) ==
  [i \in 0..(FILENAME_SIZE - 1) |->
     IF i >= at /\ i < at + n THEN src[i - at + 1] ELSE buf[i]]

\* memcpy(filename + at, src, n): the indexes written beyond the buffer
MemcpyOutside(at, n) == {i \in at..(at + n - 1) : i >= FILENAME_SIZE}

\* the bytes of the runtime directory: strlen counts bytes that are not zero
Prefix(n) == [i \in 1..n |-> "c"]

PathIdle ==
  /\ ppc = "idle"
  /\ env_len = -1
  /\ prefix_len = 0
  /\ filename = [i \in 0..(FILENAME_SIZE - 1) |-> "?"]
  /\ oob = {}
  /\ opened = FALSE
  /\ open_ret = 0
  /\ perrno = "none"
  /\ guard_ret = 0

PathInit ==
  /\ ppc = "getenv"
  /\ env_len \in -1..MaxPrefixLen
  /\ prefix_len = 0
  /\ filename = [i \in 0..(FILENAME_SIZE - 1) |-> "?"]
  /\ oob = {}
  /\ opened = FALSE
  /\ open_ret = 0
  /\ perrno = "none"
  /\ guard_ret = 0

\* prefix = getenv("XDG_RUNTIME_DIR"); if (!prefix) prefix = "/tmp"; strlen(prefix)
GetPrefix ==
  /\ ppc = "getenv"
  /\ prefix_len' = IF env_len = -1 THEN TMP_LEN ELSE env_len
  /\ ppc' = "check"
  /\ UNCHANGED <<env_len, filename, oob, opened, open_ret, perrno, guard_ret>>

\* the overflow test: errno = EOVERFLOW; return -1;
CheckLength ==
  /\ ppc = "check"
  /\ IF TooLong(prefix_len)
     THEN /\ perrno' = "EOVERFLOW"
          /\ open_ret' = -1
          /\ ppc' = "returned"
     ELSE /\ ppc' = "copy_prefix"
          /\ UNCHANGED <<perrno, open_ret>>
  /\ UNCHANGED <<env_len, prefix_len, filename, oob, opened, guard_ret>>

\* memcpy(filename, prefix, prefix_len);
CopyPrefix ==
  /\ ppc = "copy_prefix"
  /\ filename' = Memcpy(filename, 0, prefix_len, Prefix(prefix_len))
  /\ oob' = oob \cup MemcpyOutside(0, prefix_len)
  /\ ppc' = "copy_suffix"
  /\ UNCHANGED <<env_len, prefix_len, opened, open_ret, perrno, guard_ret>>

\* memcpy(filename + prefix_len, pidfdname, sizeof(pidfdname));
CopySuffix ==
  /\ ppc = "copy_suffix"
  /\ filename' = Memcpy(filename, prefix_len, PIDFDNAME_SIZE, Pidfdname)
  /\ oob' = oob \cup MemcpyOutside(prefix_len, PIDFDNAME_SIZE)
  /\ ppc' = "open"
  /\ UNCHANGED <<env_len, prefix_len, opened, open_ret, perrno, guard_ret>>

\* return open(filename, O_RDWR | O_CREAT, S_IRUSR | S_IWUSR);
OpenFile ==
  /\ ppc = "open"
  /\ opened' = TRUE
  /\ \/ open_ret' = 3 /\ UNCHANGED perrno
     \/ open_ret' = -1 /\ perrno' \in {"EACCES", "ENOENT"}
  /\ ppc' = "returned"
  /\ UNCHANGED <<env_len, prefix_len, filename, oob, guard_ret>>

\* int pidfd = open_pidfd(); if (-1 == pidfd) { ...; return -1; }
TestPidfd ==
  /\ ppc = "returned"
  /\ IF open_ret = -1
     THEN guard_ret' = -1 /\ ppc' = "failed"
     ELSE ppc' = "flock" /\ UNCHANGED guard_ret
  /\ UNCHANGED <<env_len, prefix_len, filename, oob, opened, open_ret, perrno>>

(***************************************************************************)
(* The poll loop of main and its error exit.                               *)
(***************************************************************************)
\* most messages that arrive on the bus between two polls
MaxBusWork == 2

\* most display events queued at a time
MaxWlQueue == 2

\* enum event_loop_fd
Sources == {"EVENT_LOOP_DBUS", "EVENT_LOOP_WAYLAND", "EVENT_LOOP_PIPEWIRE"}

\* bits poll may set in revents: POLLIN was asked for, POLLHUP is always reported
Revents == SUBSET {"POLLIN", "POLLHUP"}

\* pollfds[i].revents & POLLIN
Ready(i) == "POLLIN" \in revents[i]

\* the step after the bus part of an iteration, after the display part, and
\* after the streaming-loop part: each "if" is skipped when its fd is not ready
AfterPw == "pending"

AfterWl == IF Ready("EVENT_LOOP_PIPEWIRE") THEN "pw" ELSE AfterPw

AfterBus == IF Ready("EVENT_LOOP_WAYLAND") THEN "wl" ELSE AfterWl

AfterPoll == IF Ready("EVENT_LOOP_DBUS") THEN "bus" ELSE AfterBus

ErrorPcs == {"err_unref", "err_leave", "err_destroy", "err_disconnect"}

\* the positions of the loop, and those at which the process waits for input
\* from outside: in poll, and inside a wl_display_dispatch that has to read
LoopPcs == {"poll", "bus", "wl", "wl_wait", "pw", "pending", "flush", "bus_flush"}

WaitPcs == {"poll", "wl_wait"}

\* the calls of main from the guard to the name request, in program order
BootOrder ==
  <<"assert_only_one_xdpw_instance", "sd_bus_open_user", "wl_display_connect",
    "pw_loop_new", "xdpw_state", "xdpw_screenshot_init", "xdpw_screencast_init",
    "sd_bus_request_name">>

\* display events a handler may leave queued, whether it buffered requests, and
\* whether it read the display's socket (a roundtrip made by the handler)
HandlerEffect(q, dirty, err, rd) ==
  /\ wlQueued' \in q..MaxWlQueue
  /\ wlOutDirty' \in {dirty, TRUE}
  /\ wlError' \in {err, TRUE}
  /\ wlReadable' \in {rd, FALSE}

LoopIdle ==
  /\ mpc = "idle"
  /\ revents = [i \in Sources |-> {}]
  /\ lret = 0
  /\ busWork = 0
  /\ kAtWake = 0
  /\ wlQueued = 0
  /\ wlError = FALSE
  /\ wlOutDirty = FALSE
  /\ wlReadable = FALSE
  /\ busCalls = 0
  /\ wlCalls = 0
  /\ pwCalls = 0
  /\ errs = {}
  /\ iterated = FALSE
  /\ released = <<>>
  /\ boot = <<>>
  /\ exitCode = -1

\* main after the name request: the collaborators' initialisation may have
\* queued display events and buffered requests
LoopInit ==
  /\ mpc = "poll"
  /\ revents = [i \in Sources |-> {}]
  /\ lret = 0
  /\ busWork = 0
  /\ kAtWake = 0
  /\ wlQueued \in 0..MaxWlQueue
  /\ wlError = FALSE
  /\ wlOutDirty \in BOOLEAN
  /\ wlReadable = FALSE
  /\ busCalls = 0
  /\ wlCalls = 0
  /\ pwCalls = 0
  /\ errs = {}
  /\ iterated = FALSE
  /\ released = <<>>
  /\ boot = BootOrder
  /\ exitCode = -1

\* ret = poll(pollfds, 3, -1); if (ret < 0) goto error;
\* poll reports POLLIN for the display exactly when its socket has unread bytes
Poll ==
  /\ mpc = "poll"
  /\ busCalls' = 0 /\ wlCalls' = 0 /\ pwCalls' = 0
  /\ \/ /\ lret' = -1
        /\ errs' = {"poll"}
        /\ mpc' = "err_unref"
        /\ UNCHANGED <<revents, busWork, kAtWake, wlReadable>>
     \/ /\ lret' = 1
        /\ errs' = {}
        /\ wlReadable' \in {wlReadable, TRUE}
        /\ revents' \in {r \in [Sources -> Revents] :
                           /\ \E i \in Sources : r[i] # {}
                           /\ ("POLLIN" \in r["EVENT_LOOP_WAYLAND"]) = wlReadable'}
        /\ busWork' \in busWork..MaxBusWork
        /\ kAtWake' = busWork'
        /\ mpc' = AfterPoll'
  /\ UNCHANGED <<wlQueued, wlError, wlOutDirty, iterated, released, boot, exitCode>>

\* sd_bus_process called once per wake-up
BusLoopOnce(r) == FALSE

\* the test of the bus loop: } while (ret > 0);
BusLoopTest(r) == r > 0

\* do { ret = sd_bus_process(state.bus, NULL); } while (ret > 0);
\* if (ret < 0) goto error;
\* one call handles at most one queued message and returns 0 when none is left
BusProcess ==
  /\ mpc = "bus"
  /\ busCalls' = busCalls + 1
  /\ \/ /\ lret' = -1
        /\ errs' = errs \cup {"sd_bus_process"}
        /\ mpc' = "err_unref"
        /\ UNCHANGED <<busWork, wlQueued, wlError, wlOutDirty, wlReadable>>
     \/ /\ busWork > 0
        /\ busWork' = busWork - 1
        /\ lret' = 1
        /\ HandlerEffect(wlQueued, wlOutDirty, wlError, wlReadable)
        /\ mpc' = IF BusLoopTest(1) THEN "bus" ELSE AfterBus
        /\ UNCHANGED errs
     \/ /\ busWork = 0
        /\ lret' = 0
        /\ mpc' = IF BusLoopTest(0) THEN "bus" ELSE AfterBus
        /\ UNCHANGED <<busWork, wlQueued, wlError, wlOutDirty, wlReadable, errs>>
  /\ UNCHANGED <<revents, kAtWake, wlCalls, pwCalls, iterated, released, boot, exitCode>>

\* wl_display_dispatch with no event queued polls the display's socket without
\* a timeout before it reads: it waits when the socket has nothing to read
WlBlocks == wlQueued = 0 /\ ~wlReadable

\* ret = wl_display_dispatch(state.wl_display); if (ret < 0) goto error;
WlDispatch ==
  /\ mpc = "wl"
  /\ wlCalls' = wlCalls + 1
  /\ \/ /\ lret' = -1
        /\ errs' = errs \cup {"wl_display_dispatch"}
        /\ wlError' = TRUE
        /\ mpc' = "err_unref"
        /\ UNCHANGED <<wlQueued, wlOutDirty, wlReadable>>
     \/ /\ ~wlError /\ WlBlocks
        /\ mpc' = "wl_wait"
        /\ UNCHANGED <<lret, errs, wlQueued, wlError, wlOutDirty, wlReadable>>
     \/ /\ ~wlError /\ ~WlBlocks
        /\ lret' \in {0, 1}
        /\ HandlerEffect(0, FALSE, FALSE, wlQueued > 0 /\ wlReadable)
        /\ mpc' = AfterWl
        /\ UNCHANGED errs
  /\ UNCHANGED <<revents, busWork, kAtWake, busCalls, pwCalls, iterated, released,
                 boot, exitCode>>

\* the display sends bytes, or its connection breaks, while wl_display_dispatch
\* waits: the call reads, dispatches and returns
WlDispatchWake ==
  /\ mpc = "wl_wait"
  /\ \/ /\ lret' = -1
        /\ errs' = errs \cup {"wl_display_dispatch"}
        /\ wlError' = TRUE
        /\ mpc' = "err_unref"
        /\ UNCHANGED <<wlQueued, wlOutDirty, wlReadable>>
     \/ /\ lret' \in {0, 1}
        /\ HandlerEffect(0, FALSE, FALSE, FALSE)
        /\ mpc' = AfterWl
        /\ UNCHANGED errs
  /\ UNCHANGED <<revents, busWork, kAtWake, busCalls, wlCalls, pwCalls, iterated,
                 released, boot, exitCode>>

\* ret = pw_loop_iterate(state.pw_loop, 0); if (ret < 0) goto error;
PwIterate ==
  /\ mpc = "pw"
  /\ pwCalls' = pwCalls + 1
  /\ \/ /\ lret' = -1
        /\ errs' = errs \cup {"pw_loop_iterate"}
        /\ mpc' = "err_unref"
        /\ UNCHANGED <<wlQueued, wlError, wlOutDirty, wlReadable>>
     \/ /\ lret' \in {0, 1}
        /\ HandlerEffect(wlQueued, wlOutDirty, wlError, wlReadable)
        /\ mpc' = AfterPw
        /\ UNCHANGED errs
  /\ UNCHANGED <<revents, busWork, kAtWake, busCalls, wlCalls, iterated, released,
                 boot, exitCode>>

\* do { ret = wl_display_dispatch_pending(state.wl_display); ...
\* -1 when the display is in its error state, else the number of events
\* dispatched; the callbacks may queue further events
DispatchPending ==
  /\ mpc = "pending"
  /\ \/ /\ wlError
        /\ lret' = -1
        /\ errs' = errs \cup {"wl_display_dispatch_pending"}
        /\ UNCHANGED <<wlQueued, wlError, wlOutDirty, wlReadable>>
     \/ /\ ~wlError
        /\ lret' = IF wlQueued > 0 THEN 1 ELSE 0
        /\ IF wlQueued > 0
           THEN HandlerEffect(0, wlOutDirty, FALSE, wlReadable)
           ELSE UNCHANGED <<wlQueued, wlError, wlOutDirty, wlReadable>>
        /\ UNCHANGED errs
  /\ mpc' = "flush"
  /\ UNCHANGED <<revents, busWork, kAtWake, busCalls, wlCalls, pwCalls, iterated,
                 released, boot, exitCode>>

\* the loop going back to poll without the flush of the bus
AfterFlushToPoll == IF lret > 0 THEN "pending" ELSE "poll"

\* the test of the drain loop: } while (ret > 0);
AfterFlush == IF lret > 0 THEN "pending" ELSE "bus_flush"

\* ... wl_display_flush(state.wl_display); } while (ret > 0);
\* the result of the flush is not looked at
WlFlush ==
  /\ mpc = "flush"
  /\ \/ /\ ~wlError
        /\ wlOutDirty' = FALSE
        /\ UNCHANGED <<wlError, errs>>
     \/ /\ wlOutDirty
        /\ wlError' \in {wlError, TRUE}
        /\ errs' = errs \cup {"wl_display_flush"}
        /\ UNCHANGED wlOutDirty
     \/ /\ wlError
        /\ errs' = errs \cup {"wl_display_flush"}
        /\ UNCHANGED <<wlError, wlOutDirty>>
  /\ mpc' = AfterFlush
  /\ UNCHANGED <<revents, lret, busWork, kAtWake, wlQueued, wlReadable, busCalls,
                 wlCalls, pwCalls, iterated, released, boot, exitCode>>

\* sd_bus_flush(state.bus); the result is not looked at; back to poll
BusFlush ==
  /\ mpc = "bus_flush"
  /\ \/ UNCHANGED errs
     \/ errs' = errs \cup {"sd_bus_flush"}
  /\ iterated' = TRUE
  /\ mpc' = "poll"
  /\ UNCHANGED <<revents, lret, busWork, kAtWake, wlQueued, wlError, wlOutDirty,
                 wlReadable, busCalls, wlCalls, pwCalls, released, boot, exitCode>>

Release(call, next) ==
  /\ released' = Append(released, call)
  /\ mpc' = next
  /\ UNCHANGED <<revents, lret, busWork, kAtWake, wlQueued, wlError, wlOutDirty,
                 wlReadable, busCalls, wlCalls, pwCalls, errs, iterated, boot>>

\* error: sd_bus_unref(bus);
ErrUnref == mpc = "err_unref" /\ Release("sd_bus_unref", "err_leave") /\ UNCHANGED exitCode

\* the streaming loop destroyed without being left
ErrLeaveSkipped ==
  mpc = "err_leave" /\ Release("pw_loop_destroy", "err_disconnect") /\ UNCHANGED exitCode

\* pw_loop_leave(state.pw_loop);
ErrLeave == mpc = "err_leave" /\ Release("pw_loop_leave", "err_destroy") /\ UNCHANGED exitCode

\* pw_loop_destroy(state.pw_loop);
ErrDestroy ==
  mpc = "err_destroy" /\ Release("pw_loop_destroy", "err_disconnect") /\ UNCHANGED exitCode

\* wl_display_disconnect(state.wl_display); return EXIT_FAILURE;
ErrDisconnect ==
  /\ mpc = "err_disconnect"
  /\ Release("wl_display_disconnect", "exit")
  /\ exitCode' = EXIT_FAILURE

LoopNext ==
  \/ Poll /\ UNCHANGED <<gvars, pvars>>
  \/ BusProcess /\ UNCHANGED <<gvars, pvars>>
  \/ WlDispatch /\ UNCHANGED <<gvars, pvars>>
  \/ WlDispatchWake /\ UNCHANGED <<gvars, pvars>>
  \/ PwIterate /\ UNCHANGED <<gvars, pvars>>
  \/ DispatchPending /\ UNCHANGED <<gvars, pvars>>
  \/ WlFlush /\ UNCHANGED <<gvars, pvars>>
  \/ BusFlush /\ UNCHANGED <<gvars, pvars>>
  \/ ErrUnref /\ UNCHANGED <<gvars, pvars>>
  \/ ErrLeave /\ UNCHANGED <<gvars, pvars>>
  \/ ErrDestroy /\ UNCHANGED <<gvars, pvars>>
  \/ ErrDisconnect /\ UNCHANGED <<gvars, pvars>>

(***************************************************************************)
(* main from the guard call to the name request, for one process.          *)
(***************************************************************************)
MainInit ==
  /\ mpc = "guard"
  /\ revents = [i \in Sources |-> {}]
  /\ lret = 0
  /\ busWork = 0
  /\ kAtWake = 0
  /\ wlQueued = 0
  /\ wlError = FALSE
  /\ wlOutDirty = FALSE
  /\ wlReadable = FALSE
  /\ busCalls = 0
  /\ wlCalls = 0
  /\ pwCalls = 0
  /\ errs = {}
  /\ iterated = FALSE
  /\ released = <<>>
  /\ boot = <<>>
  /\ exitCode = -1

\* a call of the bootstrap that leaves the collaborators' state alone
BootCall(call) ==
  /\ boot' = Append(boot, call)
  /\ UNCHANGED <<revents, busWork, kAtWake, wlError, wlReadable, busCalls, wlCalls,
                 pwCalls, iterated>>

\* return EXIT_FAILURE; after the release calls given
BootReturn(call, releases) ==
  /\ errs' = errs \cup {call}
  /\ released' = released \o releases
  /\ exitCode' = EXIT_FAILURE
  /\ mpc' = "exit"

\* if (assert_only_one_xdpw_instance(replace_existing)) return EXIT_FAILURE;
GuardCall ==
  /\ mpc = "guard"
  /\ BootCall("assert_only_one_xdpw_instance")
  /\ \/ BootReturn("assert_only_one_xdpw_instance", <<>>)
     \/ mpc' = "bus_open" /\ UNCHANGED <<errs, released, exitCode>>
  /\ UNCHANGED <<lret, wlQueued, wlOutDirty>>

\* ret = sd_bus_open_user(&bus); if (ret < 0) return EXIT_FAILURE;
OpenBus ==
  /\ mpc = "bus_open"
  /\ BootCall("sd_bus_open_user")
  /\ \/ lret' = -1 /\ BootReturn("sd_bus_open_user", <<>>)
     \/ lret' = 0 /\ mpc' = "wl_connect" /\ UNCHANGED <<errs, released, exitCode>>
  /\ UNCHANGED <<wlQueued, wlOutDirty>>

\* the bus connection left open when the display cannot be reached
WlFailReleaseNone == <<>>

\* if (!wl_display) { sd_bus_unref(bus); return EXIT_FAILURE; }
WlFailRelease == <<"sd_bus_unref">>

\* struct wl_display *wl_display = wl_display_connect(NULL);
WlConnect ==
  /\ mpc = "wl_connect"
  /\ BootCall("wl_display_connect")
  /\ \/ BootReturn("wl_display_connect", WlFailRelease)
     \/ mpc' = "pw_new" /\ UNCHANGED <<errs, released, exitCode>>
  /\ UNCHANGED <<lret, wlQueued, wlOutDirty>>

\* if (!pw_loop) { wl_display_disconnect(wl_display); sd_bus_unref(bus); return EXIT_FAILURE; }
PwFailRelease == <<"wl_display_disconnect", "sd_bus_unref">>

\* pw_init(NULL, NULL); struct pw_loop *pw_loop = pw_loop_new(NULL);
PwLoopNew ==
  /\ mpc = "pw_new"
  /\ BootCall("pw_loop_new")
  /\ \/ BootReturn("pw_loop_new", PwFailRelease)
     \/ mpc' = "state" /\ UNCHANGED <<errs, released, exitCode>>
  /\ UNCHANGED <<lret, wlQueued, wlOutDirty>>

\* the name requested before the collaborators are initialised
AfterStateToName == "request_name"

\* the statement after the construction of the shared state
AfterState == "screenshot_init"

\* struct xdpw_state state = { .bus = bus, ... }; wl_list_init(&state.xdpw_sessions);
StateInit ==
  /\ mpc = "state"
  /\ BootCall("xdpw_state")
  /\ mpc' = AfterState
  /\ UNCHANGED <<lret, wlQueued, wlOutDirty, errs, released, exitCode>>

\* xdpw_screenshot_init(&state); the result is not looked at
ScreenshotInit ==
  /\ mpc = "screenshot_init"
  /\ BootCall("xdpw_screenshot_init")
  /\ mpc' = "screencast_init"
  /\ UNCHANGED <<lret, wlQueued, wlOutDirty, errs, released, exitCode>>

\* ret = xdpw_screencast_init(&state, output_name); if (ret < 0) goto error;
\* the initialisation talks to the display: events may be left queued and
\* requests buffered
ScreencastInit ==
  /\ mpc = "screencast_init"
  /\ BootCall("xdpw_screencast_init")
  /\ \/ /\ lret' = -1
        /\ errs' = errs \cup {"xdpw_screencast_init"}
        /\ mpc' = "err_unref"
     \/ /\ lret' = 0
        /\ mpc' = "request_name"
        /\ UNCHANGED errs
  /\ wlQueued' \in 0..MaxWlQueue
  /\ wlOutDirty' \in BOOLEAN
  /\ UNCHANGED <<released, exitCode>>

\* ret = sd_bus_request_name(bus, service_name, ...); if (ret < 0) goto error;
RequestName ==
  /\ mpc = "request_name"
  /\ BootCall("sd_bus_request_name")
  /\ \/ /\ lret' = -1
        /\ errs' = errs \cup {"sd_bus_request_name"}
        /\ mpc' = "err_unref"
     \/ /\ lret' = 0
        /\ mpc' = "poll"
        /\ UNCHANGED errs
  /\ UNCHANGED <<wlQueued, wlOutDirty, released, exitCode>>

MainNext ==
  \/ GuardCall /\ UNCHANGED <<gvars, pvars>>
  \/ OpenBus /\ UNCHANGED <<gvars, pvars>>
  \/ WlConnect /\ UNCHANGED <<gvars, pvars>>
  \/ PwLoopNew /\ UNCHANGED <<gvars, pvars>>
  \/ StateInit /\ UNCHANGED <<gvars, pvars>>
  \/ ScreenshotInit /\ UNCHANGED <<gvars, pvars>>
  \/ ScreencastInit /\ UNCHANGED <<gvars, pvars>>
  \/ RequestName /\ UNCHANGED <<gvars, pvars>>
  \/ Poll /\ UNCHANGED <<gvars, pvars>>
  \/ BusProcess /\ UNCHANGED <<gvars, pvars>>
  \/ WlDispatch /\ UNCHANGED <<gvars, pvars>>
  \/ WlDispatchWake /\ UNCHANGED <<gvars, pvars>>
  \/ PwIterate /\ UNCHANGED <<gvars, pvars>>
  \/ DispatchPending /\ UNCHANGED <<gvars, pvars>>
  \/ WlFlush /\ UNCHANGED <<gvars, pvars>>
  \/ BusFlush /\ UNCHANGED <<gvars, pvars>>
  \/ ErrUnref /\ UNCHANGED <<gvars, pvars>>
  \/ ErrLeave /\ UNCHANGED <<gvars, pvars>>
  \/ ErrDestroy /\ UNCHANGED <<gvars, pvars>>
  \/ ErrDisconnect /\ UNCHANGED <<gvars, pvars>>

(***************************************************************************)
(* main up to the guard call, and the guard, one system call per step.     *)
(***************************************************************************)
GuardInit ==
  /\ pc = [p \in Procs |-> "start"]
  /\ replace_existing = [p \in Procs |-> FALSE]
  /\ depth = [p \in Procs |-> 0]
  /\ pidfd = [p \in Procs |-> -1]
  /\ other_pid = [p \in Procs |-> 0]
  /\ ret = [p \in Procs |-> 0]
  /\ exitStatus = [p \in Procs |-> -1]
  /\ pending = [p \in Procs |-> "none"]
  /\ locked = {}
  /\ file = <<>>
  /\ sharedGroup \in BOOLEAN
  /\ attempts = [p \in Procs |-> 0]
  /\ sigLog = [p \in Procs |-> <<>>]
  /\ signalled = [p \in Procs |-> {}]
  /\ graceExit = [p \in Procs |-> {}]
  /\ holderSeen = [p \in Procs |-> {}]
  /\ ioFailed = [p \in Procs |-> {}]

\* getopt_long: -r sets replace_existing; then the guard is called
Start(p) ==
  /\ pc[p] = "start"
  /\ \E r \in BOOLEAN : replace_existing' = [replace_existing EXCEPT ![p] = r]
  /\ pc' = [pc EXCEPT ![p] = "open"]
  /\ UNCHANGED <<depth, pidfd, other_pid, ret, exitStatus, pending, locked,
                 file, sharedGroup, attempts, sigLog, signalled, graceExit, holderSeen, ioFailed>>
  /\ UNCHANGED <<pvars, lvars>>

\* int pidfd = open_pidfd(); if (-1 == pidfd) return -1;
OpenPidfd(p) ==
  /\ pc[p] = "open"
  /\ \/ /\ pidfd' = [pidfd EXCEPT ![p] = 0]
        /\ pc' = [pc EXCEPT ![p] = "flock"]
        /\ UNCHANGED <<ret, ioFailed>>
     \/ /\ Failed(p, "open")
        /\ Return(p, -1)
        /\ UNCHANGED pidfd
  /\ UNCHANGED <<replace_existing, depth, other_pid, exitStatus, pending,
                 locked, file, sharedGroup, attempts, sigLog, signalled, graceExit, holderSeen>>
  /\ UNCHANGED <<pvars, lvars>>

\* if (flock(pidfd, LOCK_EX | LOCK_NB)) { if (EWOULDBLOCK == errno) ... else return -1 }
Flock(p) ==
  /\ pc[p] = "flock"
  /\ attempts' = [attempts EXCEPT ![p] = @ + 1]
  /\ \/ /\ FlockBusy(p)
        /\ pc' = [pc EXCEPT ![p] = "read"]
        /\ holderSeen' = [holderSeen EXCEPT ![p] = IF depth[p] = 0 THEN locked \ {p} ELSE @]
        /\ UNCHANGED <<ret, locked, ioFailed>>
     \/ /\ ~FlockBusy(p)
        /\ locked' = locked \cup {p}
        /\ pc' = [pc EXCEPT ![p] = "truncate"]
        /\ UNCHANGED <<ret, ioFailed, holderSeen>>
     \/ /\ Failed(p, "flock")
        /\ Return(p, -1)
        /\ UNCHANGED <<locked, holderSeen>>
  /\ UNCHANGED <<replace_existing, depth, pidfd, other_pid, exitStatus,
                 pending, file, sharedGroup, sigLog, signalled, graceExit>>
  /\ UNCHANGED <<pvars, lvars>>

\* the takeover entered whatever the argument
TakeOverAlways(p) == TRUE

\* if (replace_existing) { ... takeover ... }
TakeOver(p) == replace_existing[p]

\* read(pidfd, other_inst, 15); len == -1: return -1; replace_existing: atoi and
\* the takeover; else "already running", return -1
ReadPid(p) ==
  /\ pc[p] = "read"
  /\ \/ LET other_inst == ReadBytes(file, pidfd[p]) IN
          /\ pidfd' = [pidfd EXCEPT ![p] = @ + Len(other_inst)]
          /\ IF TakeOver(p)
             THEN /\ other_pid' = [other_pid EXCEPT ![p] = Atoi(other_inst)]
                  /\ pc' = [pc EXCEPT ![p] = "term"]
                  /\ UNCHANGED ret
             ELSE /\ Return(p, -1)
                  /\ UNCHANGED other_pid
          /\ UNCHANGED ioFailed
     \/ /\ Failed(p, "read")
        /\ Return(p, -1)
        /\ UNCHANGED <<pidfd, other_pid>>
  /\ UNCHANGED <<replace_existing, depth, exitStatus, pending, locked, file,
                 sharedGroup, attempts, sigLog, signalled, graceExit, holderSeen>>
  /\ UNCHANGED <<pvars, lvars>>

\* kill(other_pid, SIGTERM);
KillTerm(p) ==
  /\ pc[p] = "term"
  /\ SendSignal(p, other_pid[p], "TERM")
  /\ signalled' = [signalled EXCEPT ![p] = Recipients(p, other_pid[p])]
  /\ UNCHANGED <<graceExit, holderSeen>>
  /\ pc' = [pc EXCEPT ![p] = "sleep"]
  /\ UNCHANGED <<replace_existing, depth, pidfd, other_pid, ret, exitStatus,
                 locked, file, sharedGroup, attempts, ioFailed>>
  /\ UNCHANGED <<pvars, lvars>>

\* sleep(1);
Sleep(p) ==
  /\ pc[p] = "sleep"
  /\ pc' = [pc EXCEPT ![p] = "kill"]
  /\ UNCHANGED <<replace_existing, depth, pidfd, other_pid, ret, exitStatus,
                 pending, locked, file, sharedGroup, attempts, sigLog, signalled, graceExit, holderSeen, ioFailed>>
  /\ UNCHANGED <<pvars, lvars>>

\* the second signal sent only while the first one's recipient is still running
KillKillIfAlive(p) ==
  /\ pc[p] = "kill"
  /\ IF \E h \in signalled[p] : Alive(h)
     THEN SendSignal(p, other_pid[p], "KILL")
     ELSE UNCHANGED <<pending, sigLog>>
  /\ graceExit' = [graceExit EXCEPT ![p] = {h \in signalled[p] : ~Alive(h)}]
  /\ UNCHANGED <<signalled, holderSeen>>
  /\ pc' = [pc EXCEPT ![p] = "close"]
  /\ UNCHANGED <<replace_existing, depth, pidfd, other_pid, ret, exitStatus,
                 locked, file, sharedGroup, attempts, ioFailed>>
  /\ UNCHANGED <<pvars, lvars>>

\* kill(other_pid, SIGKILL);
KillKill(p) ==
  /\ pc[p] = "kill"
  /\ SendSignal(p, other_pid[p], "KILL")
  /\ graceExit' = [graceExit EXCEPT ![p] = {h \in signalled[p] : ~Alive(h)}]
  /\ UNCHANGED <<signalled, holderSeen>>
  /\ pc' = [pc EXCEPT ![p] = "close"]
  /\ UNCHANGED <<replace_existing, depth, pidfd, other_pid, ret, exitStatus,
                 locked, file, sharedGroup, attempts, ioFailed>>
  /\ UNCHANGED <<pvars, lvars>>

\* the nested call made with the caller's own argument
RetryReplaceSame(r) == r

\* the argument of the nested call in "return assert_only_one_xdpw_instance(0)"
RetryReplace(r) == FALSE

\* close(pidfd); return assert_only_one_xdpw_instance(0);
CloseAndRetry(p) ==
  /\ pc[p] = "close"
  /\ pidfd' = [pidfd EXCEPT ![p] = -1]
  /\ locked' = locked \ {p}
  /\ replace_existing' = [replace_existing EXCEPT ![p] = RetryReplace(@)]
  /\ depth' = [depth EXCEPT ![p] = @ + 1]
  /\ pc' = [pc EXCEPT ![p] = "open"]
  /\ UNCHANGED <<other_pid, ret, exitStatus, pending, file, sharedGroup,
                 attempts, sigLog, signalled, graceExit, holderSeen, ioFailed>>
  /\ UNCHANGED <<pvars, lvars>>

\* ftruncate(pidfd, 0) || ...: a failure skips the write and the fsync, is logged,
\* and the guard returns 0
Truncate(p) ==
  /\ pc[p] = "truncate"
  /\ \/ /\ file' = <<>>
        /\ pc' = [pc EXCEPT ![p] = "write"]
        /\ UNCHANGED <<ret, ioFailed>>
     \/ /\ Failed(p, "ftruncate")
        /\ Return(p, 0)
        /\ UNCHANGED file
  /\ UNCHANGED <<replace_existing, depth, pidfd, other_pid, exitStatus,
                 pending, locked, sharedGroup, attempts, sigLog, signalled, graceExit, holderSeen>>
  /\ UNCHANGED <<pvars, lvars>>

\* ... (write(pidfd, pid, len) == -1) || ...
WritePid(p) ==
  /\ pc[p] = "write"
  /\ \/ LET pid == Sprintf(PidOf(p)) IN
          /\ file' = WriteAt(file, pidfd[p], pid)
          /\ pidfd' = [pidfd EXCEPT ![p] = @ + Len(pid)]
          /\ pc' = [pc EXCEPT ![p] = "fsync"]
          /\ UNCHANGED <<ret, ioFailed>>
     \/ /\ Failed(p, "write")
        /\ Return(p, 0)
        /\ UNCHANGED <<file, pidfd>>
  /\ UNCHANGED <<replace_existing, depth, other_pid, exitStatus, pending,
                 locked, sharedGroup, attempts, sigLog, signalled, graceExit, holderSeen>>
  /\ UNCHANGED <<pvars, lvars>>

\* the guard closing its handle, and with it dropping the lock, before it returns
FsyncAndClose(p) ==
  /\ pc[p] = "fsync"
  /\ \/ UNCHANGED ioFailed
     \/ Failed(p, "fsync")
  /\ Return(p, 0)
  /\ pidfd' = [pidfd EXCEPT ![p] = -1]
  /\ locked' = locked \ {p}
  /\ UNCHANGED <<replace_existing, depth, other_pid, exitStatus,
                 pending, file, sharedGroup, attempts, sigLog, signalled, graceExit, holderSeen>>
  /\ UNCHANGED <<pvars, lvars>>

\* ... fsync(pidfd); whatever it returns, the guard returns 0
Fsync(p) ==
  /\ pc[p] = "fsync"
  /\ \/ UNCHANGED ioFailed
     \/ Failed(p, "fsync")
  /\ Return(p, 0)
  /\ UNCHANGED <<replace_existing, depth, pidfd, other_pid, exitStatus,
                 pending, locked, file, sharedGroup, attempts, sigLog, signalled, graceExit, holderSeen>>
  /\ UNCHANGED <<pvars, lvars>>

\* if (assert_only_one_xdpw_instance(replace_existing)) return EXIT_FAILURE;
MainGuard(p) ==
  /\ pc[p] = "ret"
  /\ IF ret[p] # 0
     THEN /\ Exit(p, "exited", EXIT_FAILURE)
          /\ UNCHANGED <<file, sharedGroup>>
     ELSE /\ pc' = [pc EXCEPT ![p] = "bootstrap"]
          /\ UNCHANGED <<replace_existing, depth, pidfd, other_pid, ret, exitStatus,
                         pending, locked, file, sharedGroup, attempts, sigLog, signalled, graceExit, holderSeen, ioFailed>>
  /\ UNCHANGED <<pvars, lvars>>

\* ret = sd_bus_open_user(&bus); if (ret < 0) return EXIT_FAILURE;
BusOpen(p) ==
  /\ pc[p] = "bootstrap"
  /\ \/ /\ Exit(p, "exited", EXIT_FAILURE)
        /\ UNCHANGED <<file, sharedGroup>>
     \/ /\ pc' = [pc EXCEPT ![p] = "connected"]
        /\ UNCHANGED <<replace_existing, depth, pidfd, other_pid, ret, exitStatus,
                       pending, locked, file, sharedGroup, attempts, sigLog, signalled, graceExit, holderSeen, ioFailed>>
  /\ UNCHANGED <<pvars, lvars>>

\* main from wl_display_connect to the name request: a failing step releases the
\* connections and returns EXIT_FAILURE, else the process enters the poll loop
Bootstrap(p) ==
  /\ pc[p] = "connected"
  /\ \/ /\ Exit(p, "exited", EXIT_FAILURE)
        /\ UNCHANGED <<file, sharedGroup>>
     \/ /\ pc' = [pc EXCEPT ![p] = "loop"]
        /\ UNCHANGED <<replace_existing, depth, pidfd, other_pid, ret, exitStatus,
                       pending, locked, file, sharedGroup, attempts, sigLog, signalled, graceExit, holderSeen, ioFailed>>
  /\ UNCHANGED <<pvars, lvars>>

\* the poll loop ends only through "goto error": return EXIT_FAILURE
LoopError(p) ==
  /\ pc[p] = "loop"
  /\ Exit(p, "exited", EXIT_FAILURE)
  /\ UNCHANGED <<file, sharedGroup>>
  /\ UNCHANGED <<pvars, lvars>>

\* exit status the shell reports for a process ended by a signal
KilledStatus == 128 + 9

\* SIGTERM and SIGKILL end a process at any point: no handler is installed
Die(p) ==
  /\ Alive(p)
  /\ pending[p] # "none"
  /\ Exit(p, "killed", KilledStatus)
  /\ UNCHANGED <<file, sharedGroup>>
  /\ UNCHANGED <<pvars, lvars>>

\* the process has opened an external connection (bus, display, streaming loop)
HasConnections(p) == pc[p] \in {"connected", "loop"}

GuardStep(p) ==
  \/ OpenPidfd(p) \/ Flock(p) \/ ReadPid(p) \/ KillTerm(p) \/ Sleep(p)
  \/ KillKill(p) \/ CloseAndRetry(p) \/ Truncate(p) \/ WritePid(p) \/ Fsync(p)
  \/ MainGuard(p)

GuardNext ==
  \/ \E p \in Procs : Start(p)
  \/ \E p \in Procs : OpenPidfd(p)
  \/ \E p \in Procs : Flock(p)
  \/ \E p \in Procs : ReadPid(p)
  \/ \E p \in Procs : KillTerm(p)
  \/ \E p \in Procs : Sleep(p)
  \/ \E p \in Procs : KillKill(p)
  \/ \E p \in Procs : CloseAndRetry(p)
  \/ \E p \in Procs : Truncate(p)
  \/ \E p \in Procs : WritePid(p)
  \/ \E p \in Procs : Fsync(p)
  \/ \E p \in Procs : MainGuard(p)
  \/ \E p \in Procs : BusOpen(p)
  \/ \E p \in Procs : Bootstrap(p)
  \/ \E p \in Procs : LoopError(p)
  \/ \E p \in Procs : Die(p)

GuardSpecInit == GuardInit /\ PathIdle /\ LoopIdle

GuardSpec == GuardSpecInit /\ [][GuardNext]_vars

(***************************************************************************)
(* Properties of the instance guard.                                       *)
(***************************************************************************)
GuardPcs == {"open", "flock", "read", "term", "sleep", "kill", "close",
             "truncate", "write", "fsync"}

\* a live process for which the guard has returned 0
PassedGuard(p) ==
  \/ pc[p] = "ret" /\ ret[p] = 0
  \/ pc[p] \in {"bootstrap", "connected", "loop"}

\* every process other than c and h has not been started
OnlyTwo(c, h) == \A q \in Procs \ {c, h} : pc[q] = "start"

\* C1: at most one live process holds the lock on the pid file, and at most one
\* live process has returned success from the guard; that process holds the lock.
MutualExclusion ==
  /\ Cardinality(locked) <= 1
  /\ Cardinality({p \in Procs : PassedGuard(p)}) <= 1
  /\ \A p \in Procs : PassedGuard(p) => p \in locked

\* a process is past the guard while another one has found the lock busy
MutualExclusionWitness ==
  \E p, q \in Procs : p # q /\ PassedGuard(p) /\ pc[q] = "read" /\ locked = {p}

\* C2: once the guard has returned success, and for as long as the process holds
\* the lock, the pid file holds exactly the decimal text of the holder's pid.
PidContent ==
  \A p \in Procs : PassedGuard(p) /\ p \in locked => file = Sprintf(PidOf(p))

\* the same for holders whose ftruncate and write calls did not fail
PidContentWhenWritten ==
  \A p \in Procs :
     PassedGuard(p) /\ p \in locked /\ ioFailed[p] \cap {"ftruncate", "write"} = {}
       => file = Sprintf(PidOf(p))

\* C3: a guard call without replace that finds the lock held by another process
\* does not take the lock, and from there on each of its steps leaves the pid
\* file, the lock and every process's signals as they are, until it returns -1.
NoReplaceStep(p) ==
  /\ (pc[p] = "flock" /\ FlockBusy(p) /\ ~replace_existing[p]
       /\ pc'[p] \notin {"flock", "killed"})
       => /\ pc'[p] \in {"read", "ret"}
          /\ pc'[p] = "ret" => ret'[p] = -1
          /\ locked' = locked /\ file' = file
          /\ pending' = pending /\ sigLog' = sigLog
  /\ (pc[p] = "read" /\ ~replace_existing[p] /\ pc'[p] \notin {"read", "killed"})
       => /\ pc'[p] = "ret" /\ ret'[p] = -1
          /\ locked' = locked /\ file' = file
          /\ pending' = pending /\ sigLog' = sigLog

ContentionNoReplace == [][\A p \in Procs : NoReplaceStep(p)]_vars

\* a call without replace has failed on a held lock, no call of it having failed
ContentionNoReplaceWitness ==
  \E p \in Procs :
     /\ pc[p] = "ret" /\ ret[p] = -1 /\ depth[p] = 0 /\ ~replace_existing[p]
     /\ ioFailed[p] = {} /\ sigLog[p] = <<>> /\ locked # {} /\ file # <<>>

\* C4: with two processes, when the holder h ended during the grace period after
\* the SIGTERM of c's takeover, and the open and flock calls of c's retry did not
\* fail, the guard of c returns 0, c holds the lock and the file holds c's pid.
TakeoverSucceeds ==
  \A c, h \in Procs :
     ( /\ c # h /\ OnlyTwo(c, h)
       /\ pc[c] = "ret" /\ depth[c] = 1 /\ h \in graceExit[c]
       /\ ioFailed[c] \cap {"open", "flock", "read"} = {} )
     => ret[c] = 0 /\ c \in locked /\ file = Sprintf(PidOf(c))

\* the same when no file operation of c failed
TakeoverSucceedsWhenWritten ==
  \A c, h \in Procs :
     ( /\ c # h /\ OnlyTwo(c, h)
       /\ pc[c] = "ret" /\ depth[c] = 1 /\ h \in graceExit[c]
       /\ ioFailed[c] = {} )
     => ret[c] = 0 /\ c \in locked /\ file = Sprintf(PidOf(c))

TakeoverReached ==
  \E c, h \in Procs :
     /\ c # h /\ pc[c] = "ret" /\ depth[c] = 1 /\ h \in graceExit[c]
     /\ ioFailed[c] = {} /\ ret[c] = 0

\* C5: a process for which open, flock, ftruncate, write or fsync on the pid file
\* failed gets a nonzero result from the guard and opens no external connection.
FsErrorsFatal ==
  \A p \in Procs :
     ioFailed[p] # {} => /\ pc[p] = "ret" => ret[p] # 0
                         /\ pc[p] # "bootstrap"
                         /\ ~HasConnections(p)

\* C10: a guard call makes at most two lock attempts and sends SIGTERM and
\* SIGKILL at most once each; the nested call runs without replace, so a retry
\* that finds the lock held returns -1; every step of a guard call brings it
\* closer to its return, and a guard call can always take a step.
MaxDepth == 1

PcRank(l) ==
  CASE l = "open"     -> 10
    [] l = "flock"    -> 9
    [] l = "read"     -> 8
    [] l = "term"     -> 7
    [] l = "sleep"    -> 6
    [] l = "kill"     -> 5
    [] l = "close"    -> 4
    [] l = "truncate" -> 3
    [] l = "write"    -> 2
    [] l = "fsync"    -> 1
    [] OTHER          -> 0

Rank(l, d) == 11 * (MaxDepth - d) + PcRank(l)

Count(log, sig) == Cardinality({i \in 1..Len(log) : log[i][2] = sig})

BoundedRetryState ==
  \A p \in Procs :
     /\ attempts[p] <= 2
     /\ depth[p] <= MaxDepth
     /\ Count(sigLog[p], "TERM") <= 1 /\ Count(sigLog[p], "KILL") <= 1
     /\ depth[p] = 1 => ~replace_existing[p]
     /\ pc[p] \in GuardPcs => ENABLED GuardStep(p)

BoundedRetryStep(p) ==
  /\ (pc[p] \in GuardPcs /\ pc'[p] # pc[p] /\ pc'[p] # "killed")
       => /\ Rank(pc'[p], depth'[p]) < Rank(pc[p], depth[p])
          /\ Rank(pc'[p], depth'[p]) >= 0
  /\ (pc[p] = "read" /\ depth[p] = 1 /\ pc'[p] \notin {"read", "killed"})
       => pc'[p] = "ret" /\ ret'[p] = -1 /\ sigLog'[p] = sigLog[p]

BoundedRetry == []BoundedRetryState /\ [][\A p \in Procs : BoundedRetryStep(p)]_vars

\* the retry of a takeover found the lock still held and the guard failed
BoundedRetryWitness ==
  \E p \in Procs :
     /\ pc[p] = "ret" /\ ret[p] = -1 /\ depth[p] = 1 /\ attempts[p] = 2
     /\ Len(sigLog[p]) = 2 /\ ioFailed[p] = {}

\* C11: a takeover sends SIGTERM to the pid it read, sleeps, sends SIGKILL to the
\* same pid whether or not the holder has ended meanwhile, closes its handle, and
\* only then makes its second lock attempt, on a newly opened handle; no second
\* lock attempt is made before both signals have been sent.
TakeoverOrderState ==
  \A p \in Procs :
     LET t == <<other_pid[p], "TERM">>
         k == <<other_pid[p], "KILL">>
     IN /\ pc[p] \in {"sleep", "kill"} => sigLog[p] = <<t>> /\ pidfd[p] # -1
        /\ pc[p] = "close" => sigLog[p] = <<t, k>> /\ pidfd[p] # -1
        /\ depth[p] = 1 => sigLog[p] = <<t, k>>
        /\ (depth[p] = 0 /\ pc[p] \notin {"sleep", "kill", "close"}) => sigLog[p] = <<>>
        /\ attempts[p] = 2 => depth[p] = 1
        /\ (depth[p] = 1 /\ pc[p] = "open") => pidfd[p] = -1 /\ attempts[p] = 1

TakeoverOrderStep(p) ==
  /\ (pc[p] = "term" /\ pc'[p] \notin {"term", "killed"}) => pc'[p] = "sleep"
  /\ (pc[p] = "sleep" /\ pc'[p] \notin {"sleep", "killed"}) => pc'[p] = "kill"
  /\ (pc[p] = "kill" /\ pc'[p] \notin {"kill", "killed"}) => pc'[p] = "close"
  /\ (pc[p] = "close" /\ pc'[p] \notin {"close", "killed"})
       => pc'[p] = "open" /\ depth'[p] = 1 /\ pidfd'[p] = -1
  /\ (depth'[p] = 1 /\ pc'[p] = "flock" /\ pc[p] # "flock")
       => pc[p] = "open" /\ depth[p] = 1 /\ pidfd[p] = -1 /\ pidfd'[p] = 0

TakeoverOrder == []TakeoverOrderState /\ [][\A p \in Procs : TakeoverOrderStep(p)]_vars

\* a second lock attempt is about to be made on a new handle, after both signals,
\* the holder having ended before the SIGKILL was sent
TakeoverOrderWitness ==
  \E p \in Procs :
     /\ pc[p] = "flock" /\ depth[p] = 1 /\ attempts[p] = 1 /\ pidfd[p] = 0
     /\ graceExit[p] # {} /\ Len(sigLog[p]) = 2 /\ sigLog[p][2][2] = "KILL"

\* C18: a process that has taken the lock keeps it, and keeps its handle open,
\* through the rest of the guard, the bootstrap and the loop until it ends; the
\* lock is only ever held by a live process; the one handle that is closed is the
\* handle of a takeover, which does not hold the lock.
LockLifetimeState ==
  \A p \in Procs :
     /\ p \in locked => Alive(p) /\ pidfd[p] # -1
     /\ PassedGuard(p) => p \in locked
     /\ pc[p] \in {"truncate", "write", "fsync"} => p \in locked
     /\ pc[p] = "close" => p \notin locked

LockLifetimeStep(p) ==
  /\ (p \in locked /\ p \notin locked') => pc'[p] \in {"exited", "killed"}
  /\ (pidfd[p] # -1 /\ pidfd'[p] = -1)
       => \/ pc'[p] \in {"exited", "killed"}
          \/ pc[p] = "close" /\ p \notin locked /\ locked' = locked

LockLifetime == []LockLifetimeState /\ [][\A p \in Procs : LockLifetimeStep(p)]_vars

\* a takeover has closed its handle while the holder, in its loop, has the lock
LockLifetimeWitness ==
  \E p, q \in Procs :
     /\ pc[p] = "loop" /\ locked = {p} /\ pidfd[p] # -1
     /\ pc[q] = "open" /\ depth[q] = 1 /\ pidfd[q] = -1

\* C19: every signal of a takeover is addressed to the pid of a process that
\* held the lock when the caller's lock attempt failed: never to pid 0, which is
\* the caller's process group, and never to the caller's own pid.
SignalsOnlyHolder ==
  \A p \in Procs : \A i \in 1..Len(sigLog[p]) :
     LET pid == sigLog[p][i][1]
     IN /\ pid # 0
        /\ pid # PidOf(p)
        /\ \E h \in holderSeen[p] : pid = PidOf(h)

\* the same for a takeover that read the file after the holder's write
SignalsHolderWhenWritten ==
  \A p \in Procs : \A i \in 1..Len(sigLog[p]) :
     (\E h \in holderSeen[p] : other_pid[p] = PidOf(h))
       => /\ sigLog[p][i][1] = other_pid[p]
          /\ \A q \in signalled[p] : q \in holderSeen[p]

\* a takeover has signalled its own process group: the caller is among the
\* recipients and the holder, in another group, is not
SignalledOwnGroup ==
  \E p \in Procs :
     /\ pc[p] = "sleep" /\ sigLog[p] = <<<<0, "TERM">>>>
     /\ pending[p] = "TERM" /\ holderSeen[p] # {}
     /\ \A h \in holderSeen[p] : pending[h] = "none" /\ Alive(h)

(***************************************************************************)
(* open_pidfd for every length of the runtime directory.                   *)
(***************************************************************************)
PathNext ==
  \/ GetPrefix /\ UNCHANGED <<gvars, lvars>>
  \/ CheckLength /\ UNCHANGED <<gvars, lvars>>
  \/ CopyPrefix /\ UNCHANGED <<gvars, lvars>>
  \/ CopySuffix /\ UNCHANGED <<gvars, lvars>>
  \/ OpenFile /\ UNCHANGED <<gvars, lvars>>
  \/ TestPidfd /\ UNCHANGED <<gvars, lvars>>

PathSpecInit == GuardInit /\ PathInit /\ LoopIdle

PathSpec == PathSpecInit /\ [][PathNext]_vars

Written == {i \in 0..(FILENAME_SIZE - 1) : filename[i] # "?"}

\* C9: when the length of the runtime directory plus the ten bytes of
\* "/xdpw.pid" and its terminator exceeds 256, open_pidfd returns -1 with
\* EOVERFLOW, writes no byte, opens no file, and the guard returns -1; for every
\* accepted length all bytes written are at indexes 0..255 and the path ends in a
\* zero byte inside the buffer, with no zero byte before it.
PathOverflowGuard ==
  /\ oob = {}
  /\ (ppc \notin {"getenv", "check"} /\ prefix_len + 10 > 256)
       => /\ ppc \in {"returned", "failed"}
          /\ open_ret = -1 /\ perrno = "EOVERFLOW"
          /\ Written = {} /\ ~opened
          /\ ppc = "failed" => guard_ret = -1
  /\ (ppc \in {"open", "returned", "flock", "failed"} /\ prefix_len + 10 <= 256)
       => /\ Written = 0..(prefix_len + 9)
          /\ prefix_len + 9 <= 255
          /\ filename[prefix_len + 9] = "0"
          /\ \A i \in 0..(prefix_len + 8) : filename[i] = "c"
          /\ opened = (ppc # "open")

\* a runtime directory of 247 bytes, the shortest that does not fit, was refused
PathOverflowGuardWitness ==
  /\ ppc = "failed" /\ env_len = 247 /\ prefix_len = 247
  /\ perrno = "EOVERFLOW" /\ guard_ret = -1 /\ Written = {} /\ ~opened

\* a runtime directory of 246 bytes fills the buffer to its last byte
PathLongestAccepted ==
  ppc = "flock" /\ prefix_len = 246 /\ filename[255] = "0" /\ opened

(***************************************************************************)
(* The poll loop.                                                          *)
(***************************************************************************)
LoopSpecInit == GuardInit /\ PathIdle /\ LoopInit

LoopSpec == LoopSpecInit /\ [][LoopNext]_vars

TeardownOrder ==
  <<"sd_bus_unref", "pw_loop_leave", "pw_loop_destroy", "wl_display_disconnect">>

TeardownDone(l) ==
  CASE l = "err_unref"      -> 0
    [] l = "err_leave"      -> 1
    [] l = "err_destroy"    -> 2
    [] l = "err_disconnect" -> 3
    [] l = "exit"           -> 4
    [] OTHER                -> 0

FatalCalls == {"poll", "sd_bus_process", "wl_display_dispatch", "pw_loop_iterate"}

\* C6: once poll, sd_bus_process, wl_display_dispatch or pw_loop_iterate has
\* reported an error the loop is on its error path; there the release calls are
\* made once each in the order sd_bus_unref, pw_loop_leave, pw_loop_destroy,
\* wl_display_disconnect, no poll and no drain step runs any more, and main
\* returns EXIT_FAILURE; no release call is made anywhere else.
FatalTeardownState ==
  /\ errs \cap FatalCalls # {} => mpc \in ErrorPcs \cup {"exit"}
  /\ released = SubSeq(TeardownOrder, 1, TeardownDone(mpc))
  /\ exitCode = (IF mpc = "exit" THEN 1 ELSE -1)

FatalTeardownStep ==
  mpc \in ErrorPcs \cup {"exit"}
    => /\ mpc' \in ErrorPcs \cup {"exit"}
       /\ TeardownDone(mpc') = TeardownDone(mpc) + 1
       /\ UNCHANGED <<revents, lret, busWork, wlQueued, wlOutDirty, busCalls, wlCalls,
                      pwCalls, errs, boot>>

FatalTeardown == []FatalTeardownState /\ [][FatalTeardownStep]_vars

\* main has returned after an error of sd_bus_process in the middle of a drain
FatalTeardownWitness ==
  /\ mpc = "exit" /\ exitCode = 1 /\ Len(released) = 4
  /\ errs = {"sd_bus_process"} /\ busCalls = 2 /\ iterated

PastBus == {"wl", "pw", "pending", "flush", "bus_flush", "poll"}

PastWl == {"pw", "pending", "flush", "bus_flush", "poll"}

PastPw == {"pending", "flush", "bus_flush", "poll"}

\* C7: when the bus fd was reported ready with k messages queued, the iteration
\* leaves the bus part only after at least k + 1 calls of sd_bus_process, the
\* last of which found nothing left; and sd_bus_process, wl_display_dispatch and
\* pw_loop_iterate are called zero times in an iteration whose poll did not
\* report their fd ready, and once when it did.
BatchDrain ==
  /\ (Ready("EVENT_LOOP_DBUS") /\ mpc \in PastBus)
       => busCalls >= kAtWake + 1 /\ busWork = 0
  /\ ~Ready("EVENT_LOOP_DBUS") => busCalls = 0
  /\ ~Ready("EVENT_LOOP_WAYLAND") => wlCalls = 0
  /\ ~Ready("EVENT_LOOP_PIPEWIRE") => pwCalls = 0
  /\ (Ready("EVENT_LOOP_WAYLAND") /\ mpc \in PastWl) => wlCalls = 1
  /\ (Ready("EVENT_LOOP_PIPEWIRE") /\ mpc \in PastPw) => pwCalls = 1

\* two messages were queued, only the bus fd was ready, and the loop is back at
\* poll after three calls of sd_bus_process
BatchDrainWitness ==
  /\ mpc = "poll" /\ iterated /\ kAtWake = 2 /\ busCalls = 3 /\ busWork = 0
  /\ Ready("EVENT_LOOP_DBUS")
  /\ ~Ready("EVENT_LOOP_WAYLAND") /\ ~Ready("EVENT_LOOP_PIPEWIRE")
  /\ wlCalls = 0 /\ pwCalls = 0

\* C8: at every entry to poll after the first, no display event is queued and
\* no request for the display is left unwritten.
PendingDrained ==
  (mpc = "poll" /\ iterated) => wlQueued = 0 /\ ~wlOutDirty

\* the same for iterations in which neither wl_display_dispatch_pending nor
\* wl_display_flush reported an error
PendingDrainedUnlessError ==
  ( /\ mpc = "poll" /\ iterated
    /\ errs \cap {"wl_display_dispatch_pending", "wl_display_flush"} = {} )
  => wlQueued = 0 /\ ~wlOutDirty

\* C12: every error reported by a call of the loop (poll, sd_bus_process,
\* wl_display_dispatch, pw_loop_iterate, wl_display_dispatch_pending,
\* wl_display_flush, sd_bus_flush) puts the loop on its error path.
NoErrorSwallowed == errs # {} => mpc \in ErrorPcs \cup {"exit"}

\* the loop is back at poll after wl_display_flush reported an error
ErrorSwallowedReached ==
  mpc = "poll" /\ iterated /\ "wl_display_flush" \in errs /\ exitCode = -1

StepRank(l) ==
  CASE l = "poll"      -> 0
    [] l = "bus"       -> 1
    [] l = "wl"        -> 2
    [] l = "wl_wait"   -> 2
    [] l = "pw"        -> 3
    [] l = "pending"   -> 4
    [] l = "flush"     -> 4
    [] l = "bus_flush" -> 5
    [] OTHER           -> 6

\* C13: within an iteration the steps run in the order poll, bus part, display
\* dispatch, streaming-loop part, drain of queued display events each followed
\* by a display flush, bus flush; the three fd-driven parts run only for an fd
\* reported ready and none of them runs once the drain has begun; poll is
\* entered again only from the bus flush.
ServiceOrderStep ==
  (mpc \in LoopPcs /\ mpc' \in LoopPcs)
    => /\ mpc' = "poll" => mpc = "bus_flush"
       /\ mpc' # "poll" => StepRank(mpc') >= StepRank(mpc)
       /\ mpc' = "bus" => Ready("EVENT_LOOP_DBUS")'
       /\ mpc' \in {"wl", "wl_wait"} => Ready("EVENT_LOOP_WAYLAND")'
       /\ mpc' = "pw" => Ready("EVENT_LOOP_PIPEWIRE")'
       /\ mpc' = "pending" => mpc # "pending"
       /\ mpc' = "flush" => mpc = "pending"
       /\ mpc' = "bus_flush" => mpc = "flush"
       /\ mpc \in {"pending", "flush", "bus_flush"}
            => /\ mpc' \in {"pending", "flush", "bus_flush", "poll"}
               /\ UNCHANGED <<busCalls, wlCalls, pwCalls, revents>>

ServiceOrder == [][ServiceOrderStep]_vars

\* an iteration in which all three fds were ready has run every part and is
\* back at poll, no call having reported an error
ServiceOrderWitness ==
  /\ mpc = "poll" /\ iterated /\ errs = {}
  /\ \A i \in Sources : Ready(i)
  /\ busCalls >= 2 /\ wlCalls = 1 /\ pwCalls = 1

\* calls of the drain step of a source since the last poll returned
DrainCalls(i) ==
  CASE i = "EVENT_LOOP_DBUS"     -> busCalls
    [] i = "EVENT_LOOP_WAYLAND"  -> wlCalls
    [] i = "EVENT_LOOP_PIPEWIRE" -> pwCalls

\* C14: whenever the loop waits for input from outside, the drain step of every
\* source that the last poll reported ready has been called in that iteration.
NoStarvation ==
  mpc \in WaitPcs => \A i \in Sources : Ready(i) => DrainCalls(i) >= 1

\* the same at poll only
NoStarvationAtPoll ==
  mpc = "poll" => \A i \in Sources : Ready(i) => DrainCalls(i) >= 1

\* the loop waits inside wl_display_dispatch with the streaming loop's fd
\* reported ready and pw_loop_iterate not yet called
StarvedReached ==
  mpc = "wl_wait" /\ Ready("EVENT_LOOP_PIPEWIRE") /\ pwCalls = 0

\* C17: poll is the only position at which the loop waits for input from
\* outside.
OnlyPollBlocks == mpc \in WaitPcs => mpc = "poll"

\* wl_display_dispatch waits only in an iteration in which the display's fd was
\* reported ready and a bus handler has run before it
DispatchWaitsAfterHandler ==
  mpc = "wl_wait"
    => /\ Ready("EVENT_LOOP_WAYLAND") /\ Ready("EVENT_LOOP_DBUS")
       /\ busCalls >= 2 /\ wlCalls = 1 /\ wlQueued = 0 /\ ~wlReadable

\* C20: an iteration that has passed its fd-driven parts without an error has
\* called the drain step of at least one source.
WakeProgress ==
  (mpc \in {"pending", "flush", "bus_flush"} \/ (mpc = "poll" /\ iterated))
    => busCalls + wlCalls + pwCalls >= 1

\* the same for iterations in which poll reported some fd readable
WakeProgressWhenReadable ==
  ( /\ mpc \in {"pending", "flush", "bus_flush"} \/ (mpc = "poll" /\ iterated)
    /\ \E i \in Sources : Ready(i) )
  => busCalls + wlCalls + pwCalls >= 1

\* the loop is back at poll after a wake-up that reported a hang-up on the bus
\* fd and nothing readable; no drain step ran and no error was recorded
IdleWakeReached ==
  /\ mpc = "poll" /\ iterated /\ errs = {} /\ exitCode = -1
  /\ revents["EVENT_LOOP_DBUS"] = {"POLLHUP"}
  /\ \A i \in Sources : ~Ready(i)
  /\ busCalls + wlCalls + pwCalls = 0

(***************************************************************************)
(* The bootstrap of main followed by the loop.                             *)
(***************************************************************************)
MainSpecInit == GuardInit /\ PathIdle /\ MainInit

MainSpec == MainSpecInit /\ [][MainNext]_vars

BootPcs == {"guard", "bus_open", "wl_connect", "pw_new", "state", "screenshot_init",
            "screencast_init", "request_name"}

\* the handle a bootstrap call acquires, and the handle a release call releases
Acquires(call) ==
  CASE call = "sd_bus_open_user"   -> {"bus"}
    [] call = "wl_display_connect" -> {"wl_display"}
    [] call = "pw_loop_new"        -> {"pw_loop"}
    [] OTHER                       -> {}

Releases(call) ==
  CASE call = "sd_bus_unref"          -> {"bus"}
    [] call = "wl_display_disconnect" -> {"wl_display"}
    [] call = "pw_loop_destroy"       -> {"pw_loop"}
    [] OTHER                          -> {}

Acquired ==
  UNION {Acquires(boot[i]) : i \in {j \in 1..Len(boot) : boot[j] \notin errs}}

ReleasedHandles == UNION {Releases(released[i]) : i \in 1..Len(released)}

\* the bootstrap call that failed, if one did
BootFailed == {c \in errs : \E i \in 1..Len(BootOrder) : BootOrder[i] = c}

\* C15: a bootstrap step that fails ends main with EXIT_FAILURE after releasing
\* exactly the handles acquired before it, each once: nothing after a failed
\* guard or bus connection, the bus after a failed display connection, the
\* display and the bus after a failed loop creation, bus, streaming loop and
\* display after a failed screencast initialisation or name request; no
\* bootstrap call is made after the failing one.
BootRollback ==
  /\ ReleasedHandles \subseteq Acquired
  /\ \A i, j \in 1..Len(released) : released[i] = released[j] => i = j
  /\ mpc = "exit" => ReleasedHandles = Acquired /\ exitCode = EXIT_FAILURE
  /\ mpc # "exit" => exitCode = -1
  /\ \A c \in BootFailed :
       /\ mpc \in ErrorPcs \cup {"exit"}
       /\ boot[Len(boot)] = c
       /\ mpc = "exit" =>
            released = CASE c = "wl_display_connect" -> <<"sd_bus_unref">>
                         [] c = "pw_loop_new" -> <<"wl_display_disconnect", "sd_bus_unref">>
                         [] c \in {"xdpw_screencast_init", "sd_bus_request_name"}
                              -> TeardownOrder
                         [] OTHER -> <<>>

\* main has returned after a failed display connection, the bus released
BootRollbackWitness ==
  /\ mpc = "exit" /\ exitCode = EXIT_FAILURE /\ errs = {"wl_display_connect"}
  /\ boot = SubSeq(BootOrder, 1, 3) /\ released = <<"sd_bus_unref">>

\* main has returned after a failed name request, everything released
BootRollbackNameWitness ==
  /\ mpc = "exit" /\ errs = {"sd_bus_request_name"} /\ boot = BootOrder
  /\ released = TeardownOrder

\* C16: the bootstrap calls are made once each in program order: the guard
\* before any connection is opened, the shared state after bus, display and
\* streaming loop, the screenshot and then the screencast initialisation before
\* the name request, and poll only after a name request that succeeded.
BootOrdering ==
  /\ boot = SubSeq(BootOrder, 1, Len(boot))
  /\ Len(boot) <= Len(BootOrder)
  /\ Len(boot) >= 2 => "assert_only_one_xdpw_instance" \notin errs
  /\ Len(boot) >= 5 => Acquired = {"bus", "wl_display", "pw_loop"}
  /\ mpc \in LoopPcs => boot = BootOrder /\ BootFailed = {}
  /\ (mpc \in BootPcs /\ Len(boot) >= 1) => BootFailed = {}

\* the loop is at its first poll, all eight bootstrap calls made
BootOrderingWitness ==
  mpc = "poll" /\ ~iterated /\ boot = BootOrder /\ errs = {} /\ released = <<>>

====
